---- MODULE Spec2Model ----
(***************************************************************************)
(* Model of tools/orchestrater.py (the run orchestrator) and               *)
(* tools/simulated_iq_generator.py (the synthesis engine).                 *)
(*                                                                         *)
(* Numbers.  Every float of the program (seconds, Hz, amplitudes, sigma)   *)
(* is a fixed-point integer in hundredths: 80 is 0.8, One is 1.0.  A complex    *)
(* sample is [re, im, den2]: its value is (re + j*im) / sqrt(den2) in      *)
(* units, so an unscaled sample has den2 = One*One and a sample divided   *)
(* by the peak p has den2 = p*p.  Squared magnitudes are compared, which   *)
(* keeps the arithmetic exact; float32 rounding is not modelled.           *)
(* Inputs are kept on the quarter-turn lattice (4*freq*k/samplerate is an  *)
(* integer), where exp(2j*pi*freq*t) is exactly one of 1, j, -1, -j.       *)
(*                                                                         *)
(* Paths are sequences of components; a leading "/" marks an absolute      *)
(* path.  A file system is a function from resolved paths to contents.     *)
(***************************************************************************)
EXTENDS Integers, Sequences, FiniteSets, TLC

VARIABLES
    manifest,   \* the mapping yaml.safe_load returned
    env,        \* the value of ALLOW_REAL_CAPTURE (Unset when not in the environment)
    now,        \* the UTC clock, in seconds
    hashkey,    \* the interpreter's string-hash randomisation key of this process
    run,        \* number of the orchestrator invocation (process)
    pc,         \* orchestrator position
    status,     \* orchestrator exit: "running", "exit0", or the uncaught exception
    out_dir,    \* orchestrator local
    iq_path,    \* orchestrator local
    stdout,     \* lines the orchestrator printed
    invoked,    \* number of engine invocations made by this orchestrator process
    artifacts,  \* per finished engine invocation of an orchestrator: the bytes written
    fs,         \* files: resolved path -> content
    dirs,       \* directories created
    eargs,      \* engine argv (argparse namespace)
    epc,        \* engine position
    erc,        \* engine exit code
    tones,      \* engine local: parsed tone list
    iq,         \* engine local: the sample accumulator
    meta        \* engine local: the sidecar record

ovars == <<manifest, env, now, hashkey, run, pc, status, out_dir, iq_path, stdout, invoked, artifacts>>
evars == <<eargs, epc, erc, tones, iq, meta>>
vars == <<manifest, env, now, hashkey, run, pc, status, out_dir, iq_path, stdout, invoked,
          artifacts, fs, dirs, eargs, epc, erc, tones, iq, meta>>

(***************************************************************************)
(* Bounds of the model.                                                    *)
(***************************************************************************)
MaxTones == 2
MaxClock == 1
MaxHashKey == 1
MaxRuns == 2

(***************************************************************************)
(* Arithmetic helpers.                                                     *)
(***************************************************************************)
One == 100

Min(a, b) == IF a <= b THEN a ELSE b
Max(a, b) == IF a >= b THEN a ELSE b

\* int(x) of Python for x = a/b, b > 0: truncation toward zero.
TruncDiv(a, b) == IF a >= 0 THEN a \div b ELSE -((-a) \div b)
\* ceil(a/b), b > 0.
CeilDiv(a, b) == -((-a) \div b)
\* int(float) on a fixed-point value, as a fixed-point value again.
PyInt(x) == TruncDiv(x, One) * One

\* dict.get(key, default)
Get(d, k, default) == IF k \in DOMAIN d THEN d[k] ELSE default

PyNone == "<None>"
Unset == "<unset>"

(***************************************************************************)
(* Paths (os.path).                                                        *)
(***************************************************************************)
IsAbs(p) == Len(p) > 0 /\ p[1] = "/"
\* os.path.join(a, b): an absolute b discards a.
PathJoin(a, b) == IF IsAbs(b) THEN b ELSE a \o b

RECURSIVE ResolveFrom(_, _)
ResolveFrom(done, rest) ==
    IF rest = <<>> THEN done
    ELSE IF rest[1] = ".."
         THEN ResolveFrom(IF Len(done) > 0 /\ done # <<"/">>
                          THEN SubSeq(done, 1, Len(done) - 1) ELSE done, Tail(rest))
         ELSE ResolveFrom(Append(done, rest[1]), Tail(rest))
\* What the kernel makes of a path: ".." steps to the parent.
Resolve(p) == ResolveFrom(<<>>, p)

DirName(p) == SubSeq(p, 1, Len(p) - 1)
BaseName(p) == p[Len(p)]
\* path + suffix (string concatenation on the last component)
WithSuffix(p, s) == [p EXCEPT ![Len(p)] = @ \o s]
IsPrefix(a, b) == Len(a) <= Len(b) /\ SubSeq(b, 1, Len(a)) = a
\* the file lies in directory d or below it
Under(d, p) == IsPrefix(Resolve(d), Resolve(p)) /\ Len(Resolve(p)) > Len(Resolve(d))

RECURSIVE Ancestors(_)
Ancestors(p) == IF Len(p) = 0 THEN {} ELSE {p} \cup Ancestors(DirName(p))

WriteFile(f, p, c) == [q \in DOMAIN f \cup {Resolve(p)} |-> IF q = Resolve(p) THEN c ELSE f[q]]
Exists(f, p) == Resolve(p) \in DOMAIN f

NpyNames == {"capture.npy"}
EndsWithNpy(p) == BaseName(p) \in NpyNames

(***************************************************************************)
(* The synthesis engine: pure parts.                                       *)
(***************************************************************************)
Cplx(r, i) == [re |-> r, im |-> i, den2 |-> One * One]
Zero == Cplx(0, 0)
Add(a, b) == [re |-> a.re + b.re, im |-> a.im + b.im, den2 |-> a.den2]
Mag2(z) == z.re * z.re + z.im * z.im

\* exp(2j*pi*q/4)
Cis4(q) ==
    CASE q % 4 = 0 -> [re |-> 1, im |-> 0]
      [] q % 4 = 1 -> [re |-> 0, im |-> 1]
      [] q % 4 = 2 -> [re |-> -1, im |-> 0]
      [] q % 4 = 3 -> [re |-> 0, im |-> -1]
\* quarter turns of freq * t for t = k / samplerate
Turns4(freq, k, sr) == (4 * freq * k) \div sr
OnLattice(freq, sr) == sr # 0 => (4 * freq) % (IF sr < 0 THEN -sr ELSE sr) = 0

\* t = np.arange(n) / sr: t[i] is kept as the index k = i - 1
Arange(n) == [i \in 1..Max(n, 0) |-> i - 1]

mk_tone(freq, amp, samplerate, t) ==
    [i \in DOMAIN t |->
        LET c == Cis4(Turns4(freq, t[i], samplerate))
        IN Cplx((amp * c.re), (amp * c.im))]

\* The i-th draw of np.random.normal after np.random.seed(seed): a fixed
\* function of the seed and the draw's position (a stand-in for MT19937).
Normal(seed, i) == (((seed[2] + 3 * seed[1] + 1) * (i + 1) + i * i) % 5) - 2

mk_noise(seed, sigma, size) ==
    [i \in 1..size |->
        Cplx(sigma * Normal(seed, i - 1), sigma * Normal(seed, size + i - 1))]

\* The index set of the Python slice [lo:hi] of a sequence of length len
\* (a negative index counts from the end), as 0-based indices.
SliceIdx(i, len) == IF i < 0 THEN Max(i + len, 0) ELSE Min(i, len)
Slice(lo, hi, len) == {k \in 0..(len - 1) : SliceIdx(lo, len) <= k /\ k < SliceIdx(hi, len)}

\* tone_freq and amp are never passed: the defaults 0.0 and 1.0 apply.
mk_burst(t, samplerate, burst_start, burst_dur, burst_rate) ==
    LET start_idx == TruncDiv(burst_start * samplerate, One * One)
        dur_idx == TruncDiv(burst_dur * samplerate, One * One)
        end_idx == Min(Len(t), start_idx + dur_idx)
    IN [i \in DOMAIN t |->
          IF start_idx < Len(t) /\ t[i] \in Slice(start_idx, end_idx, Len(t))
          THEN LET c == Cis4(Turns4(burst_rate, t[i], samplerate))
               IN Cplx(One * c.re, One * c.im)
          ELSE Zero]

\* The --tones string is kept split: a sequence of items (the parts between
\* commas), each the sequence of numbers between its colons.  "" is <<>>.
RECURSIVE parse_tones(_)
parse_tones(specs) ==
    IF specs = <<>> THEN <<>>
    ELSE LET s == specs[1]
         IN IF s = <<>> THEN parse_tones(Tail(specs))
            ELSE <<[freq |-> s[1], amp |-> IF Len(s) > 1 THEN s[2] ELSE One]>>
                 \o parse_tones(Tail(specs))

RECURSIVE SumTones(_, _, _, _)
\* for freq, amp in tones: iq += mk_tone(freq, amp, sr, t)
SumTones(acc, tl, sr, t) ==
    IF tl = <<>> THEN acc
    ELSE SumTones([i \in DOMAIN acc |-> Add(acc[i], mk_tone(tl[1].freq, tl[1].amp, sr, t)[i])],
                  Tail(tl), sr, t)

\* np.max(np.abs(iq)) squared; np.any(iq) is false for an all-zero or empty array
RECURSIVE MaxMag2(_)
MaxMag2(s) == IF s = <<>> THEN 0 ELSE Max(Mag2(s[1]), MaxMag2(Tail(s)))
AnyNonZero(s) == \E i \in DOMAIN s : s[i].re # 0 \/ s[i].im # 0
\* max_amp squared
MaxAmp2(s) == IF AnyNonZero(s) THEN MaxMag2(s) ELSE One * One

\* a limiter that clips each sample over 1.0 to magnitude 1.0 on its own
NormalizeClip(s) ==
    [i \in DOMAIN s |-> IF Mag2(s[i]) > One * One THEN [s[i] EXCEPT !.den2 = Mag2(s[i])] ELSE s[i]]

\* if max_amp > 1.0: iq = iq / max_amp
Normalize(s) ==
    IF MaxAmp2(s) > One * One
    THEN [i \in DOMAIN s |-> [s[i] EXCEPT !.den2 = MaxAmp2(s)]]
    ELSE s

(***************************************************************************)
(* The synthesis engine: main() of simulated_iq_generator.py, one action   *)
(* per stage.  epc = "idle": no engine process; "exit": it has ended.      *)
(***************************************************************************)
SafetyNote == "Simulated IQ for safe, in-cage or offline analysis only. Do not transmit."

\* n = int(np.ceil(args.duration * sr))
SampleCount(a) == CeilDiv(a.duration * a.samplerate, One * One)

\* lines 54-69: parse the arguments, seed, allocate.  np.zeros(n) raises
\* ValueError for a negative n, and the process dies with exit code 1.
EngineSetup ==
    /\ epc = "start"
    /\ IF SampleCount(eargs) < 0
       THEN /\ epc' = "exit"
            /\ erc' = 1
            /\ iq' = <<>>
       ELSE /\ epc' = "tones"
            /\ erc' = erc
            /\ iq' = [i \in 1..SampleCount(eargs) |-> Zero]
    /\ tones' = <<>>
    /\ UNCHANGED <<eargs, fs, dirs, meta>>
    /\ UNCHANGED ovars

\* lines 71-73
EngineTones ==
    /\ epc = "tones"
    /\ tones' = parse_tones(eargs.tones)
    /\ iq' = SumTones(iq, parse_tones(eargs.tones), eargs.samplerate, Arange(Len(iq)))
    /\ epc' = "noise"
    /\ UNCHANGED <<eargs, erc, fs, dirs, meta>>
    /\ UNCHANGED ovars

\* lines 75-76
EngineNoise ==
    /\ epc = "noise"
    /\ iq' = IF eargs.noise # 0 /\ eargs.noise > 0
             THEN [i \in DOMAIN iq |-> Add(iq[i], mk_noise(eargs.seed, eargs.noise, Len(iq))[i])]
             ELSE iq
    /\ epc' = "burst"
    /\ UNCHANGED <<eargs, erc, tones, fs, dirs, meta>>
    /\ UNCHANGED ovars

\* a burst stage that assigns the burst over its window instead of adding it
BurstStageOverwrite(acc, a) ==
    IF a.burst # <<>> /\ Len(a.burst) >= 3
    THEN LET b == mk_burst(Arange(Len(acc)), a.samplerate, a.burst[1], a.burst[2], a.burst[3])
             start_idx == TruncDiv(a.burst[1] * a.samplerate, One * One)
             end_idx == Min(Len(acc), start_idx + TruncDiv(a.burst[2] * a.samplerate, One * One))
         IN [i \in DOMAIN acc |->
               IF start_idx < Len(acc) /\ (i - 1) \in Slice(start_idx, end_idx, Len(acc))
               THEN b[i] ELSE acc[i]]
    ELSE acc

\* lines 78-86: iq += mk_burst(...); a spec with fewer than three parts only prints
BurstStage(acc, a) ==
    IF a.burst # <<>> /\ Len(a.burst) >= 3
    THEN [i \in DOMAIN acc |->
            Add(acc[i], mk_burst(Arange(Len(acc)), a.samplerate,
                                 a.burst[1], a.burst[2], a.burst[3])[i])]
    ELSE acc

EngineBurst ==
    /\ epc = "burst"
    /\ iq' = BurstStage(iq, eargs)
    /\ epc' = "normalize"
    /\ UNCHANGED <<eargs, erc, tones, fs, dirs, meta>>
    /\ UNCHANGED ovars

\* lines 88-91
EngineNormalize ==
    /\ epc = "normalize"
    /\ iq' = Normalize(iq)
    /\ epc' = "write"
    /\ UNCHANGED <<eargs, erc, tones, fs, dirs, meta>>
    /\ UNCHANGED ovars

\* interleaved float32 I,Q,I,Q,...: each entry keeps the scale of its sample
Interleave(s) ==
    [i \in 1..(2 * Len(s)) |->
        IF i % 2 = 1 THEN [v |-> s[(i + 1) \div 2].re, den2 |-> s[(i + 1) \div 2].den2]
        ELSE [v |-> s[i \div 2].im, den2 |-> s[i \div 2].den2]]

ArtifactOf(a, s) ==
    IF EndsWithNpy(a.out) THEN [kind |-> "npy", data |-> s]
    ELSE [kind |-> "iq", data |-> Interleave(s)]

MetaOf(a, tl, clock) ==
    [kind |-> "meta", generated_at |-> clock, duration_s |-> a.duration,
     samplerate_hz |-> a.samplerate, tones |-> tl, noise_sigma |-> a.noise,
     burst_spec |-> a.burst, seed |-> a.seed, file |-> BaseName(a.out),
     note |-> SafetyNote]

\* os.makedirs(os.path.dirname(out) or ".", exist_ok=True)
MakeDirs(d, p) == d \cup Ancestors(Resolve(p))

\* lines 93-116: create the directory, build the sidecar record, write the artifact
EngineWrite ==
    /\ epc = "write"
    /\ dirs' = MakeDirs(dirs, DirName(eargs.out))
    /\ meta' = MetaOf(eargs, tones, now)
    /\ fs' = WriteFile(fs, eargs.out, ArtifactOf(eargs, iq))
    /\ epc' = "meta"
    /\ UNCHANGED <<eargs, erc, tones, iq>>
    /\ UNCHANGED ovars

\* lines 118-120: write the sidecar
EngineWriteMeta ==
    /\ epc = "meta"
    /\ fs' = WriteFile(fs, WithSuffix(eargs.out, ".meta.json"), meta)
    /\ epc' = "report"
    /\ UNCHANGED <<eargs, erc, tones, iq, dirs, meta>>
    /\ UNCHANGED ovars

\* lines 122-124: report success and return
EngineReport ==
    /\ epc = "report"
    /\ epc' = "exit"
    /\ erc' = 0
    /\ UNCHANGED <<eargs, tones, iq, fs, dirs, meta>>
    /\ UNCHANGED ovars

NextEngine ==
    \/ EngineSetup
    \/ EngineTones
    \/ EngineNoise
    \/ EngineBurst
    \/ EngineNormalize
    \/ EngineWrite
    \/ EngineWriteMeta
    \/ EngineReport

(***************************************************************************)
(* The engine run from the command line.                                   *)
(***************************************************************************)
RECURSIVE SeqsUpTo(_, _)
SeqsUpTo(S, n) ==
    IF n = 0 THEN {<<>>}
    ELSE SeqsUpTo(S, n - 1) \cup {Append(s, x) : s \in {q \in SeqsUpTo(S, n - 1) : Len(q) = n - 1}, x \in S}

\* items of a --tones string: "0:0.8", "1:1.5", "1" and the empty item
ToneItems == {<<0, 80>>, <<100, 150>>, <<100>>, <<>>}
\* -1 s, 0 s, 1 s, 2 s;  -4 Hz, 0 Hz, 2 Hz, 4 Hz
Durations == {-100, 0, 100, 200}
SampleRates == {-400, 0, 200, 400}
Sigmas == {0, 50}
\* "", "0:0.5:1", "0.5:1:1", "3:0.5:1" (past the end), "0:0.5" (malformed),
\* "-0.5:1:1" (negative start), "0.5:-1:1" (negative duration)
BurstArgs == {<<>>, <<0, 50, 100>>, <<50, 100, 100>>, <<300, 50, 100>>, <<0, 50>>,
              <<-50, 100, 100>>, <<50, -100, 100>>}
OutArgs == {<<"capture.iq">>, <<"out", "capture.npy">>}
\* a 32-bit seed is the pair of its 16-bit halves <<high, low>>
Seeds == {<<0, 42>>, <<0, 1234>>}

EngineArgs ==
    [duration : Durations, samplerate : SampleRates, tones : SeqsUpTo(ToneItems, MaxTones),
     noise : Sigmas, burst : BurstArgs, out : OutArgs, seed : Seeds]

\* files present before anything runs
InitialFs == [p \in {<<"runs", "README.txt">>} |-> [kind |-> "other"]]
InitialDirs == {<<"runs">>}

NoArgs == [duration |-> 0, samplerate |-> 0, tones |-> <<>>, noise |-> 0, burst |-> <<>>,
           out |-> <<"capture.iq">>, seed |-> <<0, 0>>]

InitEngine ==
    /\ eargs \in EngineArgs
    /\ \A i \in DOMAIN eargs.tones :
          eargs.tones[i] # <<>> => OnLattice(eargs.tones[i][1], eargs.samplerate)
    /\ Len(eargs.burst) >= 3 => OnLattice(eargs.burst[3], eargs.samplerate)
    /\ epc = "start"
    /\ erc = -1
    /\ tones = <<>>
    /\ iq = <<>>
    /\ meta = <<>>
    /\ fs = InitialFs
    /\ dirs = InitialDirs
    /\ now = 0
    /\ manifest = <<>>
    /\ env = Unset
    /\ hashkey = 0
    /\ run = 0
    /\ pc = "none"
    /\ status = "none"
    /\ out_dir = <<>>
    /\ iq_path = <<>>
    /\ stdout = <<>>
    /\ invoked = 0
    /\ artifacts = <<>>

SpecEngine == InitEngine /\ [][NextEngine]_vars

(***************************************************************************)
(* The run orchestrator: orchestrater.py.                                  *)
(***************************************************************************)
\* a mapping with an optional key: S is {} (key absent) or {value}
Opt(k, S) == IF S = {} THEN <<>> ELSE (k :> (CHOOSE v \in S : TRUE))

\* created_at values: a string, or an integer
StrVal(x) == [type |-> "str", s |-> x, i |-> 0]
IntVal(x) == [type |-> "int", s |-> "", i |-> x]

Modes == {{}, {"simulated"}, {"real"}, {"Simulated"}}
\* absent, "sub/capture.iq", "/tmp/capture.iq", "../capture.iq", "capture.npy"
IqFiles == {{}, {<<"sub", "capture.iq">>}, {<<"/", "tmp", "capture.iq">>},
            {<<"..", "capture.iq">>}, {<<"capture.npy">>}}
CreatedAts == {{}, {StrVal("2024-05-01T00:00:00Z")}, {IntVal(7)}}
\* 1 s and -1 s at 4 Hz
ManifestDurations == {100, -100}
\* [], [{freq_hz: 1.5, amp: 1.5}], [{freq_hz: 1}, {freq_hz: 0, amp: 0.8}]
ManifestTones == {<<>>, <<[freq_hz |-> 150, amp |-> 150]>>,
                  <<[freq_hz |-> 100], [freq_hz |-> 0, amp |-> 80]>>}
ManifestNoise == {{}, {50}}
\* absent, {start_s: 0, duration_s: 0.5, burst_rate_hz: 1}, {start_s: 0.5}
ManifestBursts == {{}, {[start_s |-> 0, duration_s |-> 50, burst_rate_hz |-> 100]},
                   {[start_s |-> 50]}}
EnvValues == {Unset, "1", "0", "true"}

MakeManifest(mode, file, created, dur, tn, ns, b) ==
    [experiment_id |-> "exp",
     capture_parameters |-> [duration_s |-> dur, samplerate_hz |-> 400] @@ Opt("mode", mode),
     stimulus |-> [tones |-> tn] @@ Opt("noise_sigma", ns) @@ Opt("burst", b)
                  @@ Opt("simulated_iq_file", file)]
    @@ Opt("created_at", created)

Manifests ==
    {MakeManifest(mode, file, created, dur, tn, ns, b) :
        mode \in Modes, file \in IqFiles, created \in CreatedAts, dur \in ManifestDurations,
        tn \in ManifestTones, ns \in ManifestNoise, b \in ManifestBursts}

\* datetime.utcnow().strftime("%Y%m%dT%H%M%SZ")
Stamp(clock) == "T" \o ToString(clock)

\* os.getenv(name, default)
Getenv(e, default) == IF e = Unset THEN default ELSE e

\* x & 0xffffffff as the pair <<high 16 bits, low 16 bits>>
Mask32(x) == <<(x \div 65536) % 65536, x % 65536>>

\* str.__hash__ is keyed by the process's hash randomisation key (PYTHONHASHSEED
\* unset: a fresh key per interpreter); "" hashes to 0, an int to itself.
PyHash(key, v) ==
    IF v.type = "int" THEN v.i
    ELSE IF v.s = "" THEN 0
    ELSE (1 - 2 * (key % 2)) * (40507 * (key + 1) + 31 * Len(v.s))

SeedOf(m, key) == Mask32(PyHash(key, Get(m, "created_at", StrVal(""))))

\* line 33
TonesArg(tl) == [i \in DOMAIN tl |-> <<PyInt(tl[i].freq_hz), Get(tl[i], "amp", One)>>]

\* lines 35-38: the defaults are 0, 0.05 and 5000
BurstArg(st) ==
    LET b == Get(st, "burst", <<>>)
    IN IF b # <<>>
       THEN <<Get(b, "start_s", 0), Get(b, "duration_s", 5), Get(b, "burst_rate_hz", 5000 * One)>>
       ELSE <<>>

\* lines 29-49: the command line run_simulated_generator builds
Cmd(m, out_iq, key) ==
    [duration |-> m.capture_parameters.duration_s,
     samplerate |-> m.capture_parameters.samplerate_hz,
     tones |-> TonesArg(Get(m.stimulus, "tones", <<>>)),
     noise |-> Get(m.stimulus, "noise_sigma", 0),
     burst |-> BurstArg(m.stimulus),
     out |-> out_iq,
     seed |-> SeedOf(m, key)]

RunNote == "Simulated run completed. No over-air transmissions performed."

\* lines 64-72
Load ==
    /\ pc = "Start"
    /\ out_dir' = PathJoin(<<"runs">>, <<Get(manifest, "experiment_id", "run") \o "_" \o Stamp(now)>>)
    /\ dirs' = MakeDirs(dirs, out_dir')
    /\ pc' = "Loaded"
    /\ UNCHANGED <<manifest, env, now, hashkey, run, status, iq_path, stdout, invoked, artifacts, fs>>
    /\ UNCHANGED evars

\* a gate whose override is on unless the variable says otherwise
GateRejectsDefaultOn(m, e) ==
    Get(m.capture_parameters, "mode", "simulated") # "simulated"
    /\ Getenv(e, "1") # "1"

\* line 76
GateRejects(m, e) ==
    Get(m.capture_parameters, "mode", "simulated") # "simulated"
    /\ Getenv(e, "0") # "1"

\* lines 74-78
Gate ==
    /\ pc = "Loaded"
    /\ IF GateRejects(manifest, env)
       THEN /\ stdout' = Append(stdout, "[!] Manifest mode is not 'simulated'.")
            /\ pc' = "Rejected"
            /\ status' = "exit0"
       ELSE /\ stdout' = stdout
            /\ pc' = "Gated"
            /\ status' = status
    /\ UNCHANGED <<manifest, env, now, hashkey, run, out_dir, iq_path, invoked, artifacts, fs, dirs>>
    /\ UNCHANGED evars

\* a dispatch that sends every mode but "real" to the generator
TakesSimulatedBranchUnlessReal(m) == Get(m.capture_parameters, "mode", PyNone) # "real"

\* line 82
TakesSimulatedBranch(m) == Get(m.capture_parameters, "mode", PyNone) = "simulated"

\* lines 80-87 and, in the simulated branch, lines 29-51 up to the start of the engine
Dispatch ==
    /\ pc = "Gated"
    /\ iq_path' = PathJoin(out_dir, Get(manifest.stimulus, "simulated_iq_file", <<"capture.iq">>))
    /\ IF TakesSimulatedBranch(manifest)
       THEN /\ stdout' = Append(stdout, "[+] Running simulated generator to produce IQ")
            /\ eargs' = Cmd(manifest, iq_path', hashkey)
            /\ epc' = "start"
            /\ erc' = -1
            /\ invoked' = invoked + 1
            /\ pc' = "Synthesizing"
            /\ status' = status
       ELSE /\ pc' = "Failed"
            /\ status' = "NotImplementedError"
            /\ UNCHANGED <<stdout, eargs, epc, erc, invoked>>
    /\ UNCHANGED <<manifest, env, now, hashkey, run, out_dir, artifacts, fs, dirs, tones, iq, meta>>

\* line 51: subprocess.check_call returns, or raises on a non-zero exit code
EngineReturn ==
    /\ pc = "Synthesizing"
    /\ epc = "exit"
    /\ epc' = "idle"
    /\ IF erc = 0
       THEN /\ pc' = "Collect"
            /\ status' = status
            /\ artifacts' = Append(artifacts, fs[Resolve(iq_path)])
       ELSE /\ pc' = "Failed"
            /\ status' = "CalledProcessError"
            /\ artifacts' = artifacts
    /\ UNCHANGED <<manifest, env, now, hashkey, run, out_dir, iq_path, stdout, invoked, fs, dirs>>
    /\ UNCHANGED <<eargs, erc, tones, iq, meta>>

\* cp SRC DIR: refuses when DIR/basename(SRC) is SRC itself, and exits 1
CpSameFile(src, dir) == Resolve(PathJoin(dir, <<BaseName(src)>>)) = Resolve(src)

\* lines 89-93
CopySidecar ==
    /\ pc = "Collect"
    /\ LET gen_meta == WithSuffix(iq_path, ".meta.json")
       IN IF Exists(fs, gen_meta)
          THEN IF CpSameFile(gen_meta, out_dir)
               THEN /\ pc' = "Failed"
                    /\ status' = "CalledProcessError"
                    /\ fs' = fs
               ELSE /\ pc' = "Metadata"
                    /\ status' = status
                    /\ fs' = WriteFile(fs, PathJoin(out_dir, <<BaseName(gen_meta)>>),
                                       fs[Resolve(gen_meta)])
          ELSE /\ pc' = "Metadata"
               /\ status' = status
               /\ fs' = fs
    /\ UNCHANGED <<manifest, env, now, hashkey, run, out_dir, iq_path, stdout, invoked, artifacts, dirs>>
    /\ UNCHANGED evars

\* lines 95 and 54-61
save_metadata ==
    /\ pc = "Metadata"
    /\ fs' = WriteFile(fs, PathJoin(out_dir, <<"run_metadata.json">>),
                       [kind |-> "run_meta", manifest |-> manifest, run_at |-> now,
                        note |-> RunNote])
    /\ pc' = "Report"
    /\ UNCHANGED <<manifest, env, now, hashkey, run, status, out_dir, iq_path, stdout, invoked, artifacts, dirs>>
    /\ UNCHANGED evars

\* lines 97-98, and the return of main
Finish ==
    /\ pc = "Report"
    /\ stdout' = Append(stdout, "[+] Run outputs saved in " \o out_dir[Len(out_dir)])
    /\ pc' = "Finalized"
    /\ status' = "exit0"
    /\ UNCHANGED <<manifest, env, now, hashkey, run, out_dir, iq_path, invoked, artifacts, fs, dirs>>
    /\ UNCHANGED evars

\* the clock advances
Tick ==
    /\ now < MaxClock
    /\ now' = now + 1
    /\ UNCHANGED <<manifest, env, hashkey, run, pc, status, out_dir, iq_path, stdout, invoked, artifacts, fs, dirs>>
    /\ UNCHANGED evars

Terminal == pc \in {"Finalized", "Rejected", "Failed"}

\* the operator runs the orchestrator again on the same manifest: a new process
Invoke ==
    /\ Terminal
    /\ run < MaxRuns
    /\ run' = run + 1
    /\ hashkey' \in 0..MaxHashKey
    /\ pc' = "Start"
    /\ status' = "running"
    /\ out_dir' = <<>>
    /\ iq_path' = <<>>
    /\ stdout' = <<>>
    /\ invoked' = 0
    /\ UNCHANGED <<manifest, env, now, artifacts, fs, dirs>>
    /\ UNCHANGED evars

Init ==
    /\ manifest \in Manifests
    /\ env \in EnvValues
    /\ now = 0
    /\ hashkey \in 0..MaxHashKey
    /\ run = 1
    /\ pc = "Start"
    /\ status = "running"
    /\ out_dir = <<>>
    /\ iq_path = <<>>
    /\ stdout = <<>>
    /\ invoked = 0
    /\ artifacts = <<>>
    /\ fs = InitialFs
    /\ dirs = InitialDirs
    /\ eargs = NoArgs
    /\ epc = "idle"
    /\ erc = -1
    /\ tones = <<>>
    /\ iq = <<>>
    /\ meta = <<>>

NextOrchestrator ==
    \/ Load
    \/ Gate
    \/ Dispatch
    \/ EngineReturn
    \/ CopySidecar
    \/ save_metadata
    \/ Finish
    \/ Tick

Next == NextOrchestrator \/ NextEngine

Spec == Init /\ [][Next]_vars

\* two or more invocations over the same manifest
SpecRepro == Init /\ [][Next \/ Invoke]_vars

(***************************************************************************)
(* Properties.                                                             *)
(***************************************************************************)
ModeGiven == "mode" \in DOMAIN manifest.capture_parameters
ModeOf == manifest.capture_parameters.mode
NonSimulated == ModeGiven /\ ModeOf # "simulated"
RunMetadataPath == PathJoin(out_dir, <<"run_metadata.json">>)
SidecarPath == WithSuffix(iq_path, ".meta.json")

\* C1: a manifest whose mode is given and is not "simulated", run with
\* ALLOW_REAL_CAPTURE other than "1" (or unset), only ever goes Start -> Loaded ->
\* Rejected: the engine is never invoked, no file is created (so neither
\* run_metadata.json nor anything else in the run directory), and it exits normally.
C1_SafetyGate ==
    (NonSimulated /\ env # "1") =>
        /\ pc \in {"Start", "Loaded", "Rejected"}
        /\ invoked = 0
        /\ epc = "idle"
        /\ fs = InitialFs
        /\ \A p \in DOMAIN fs : ~(out_dir # <<>> /\ Under(out_dir, p))
        /\ (pc = "Rejected" => status = "exit0")

C1_Witness ==
    /\ pc = "Rejected"
    /\ ModeGiven
    /\ ModeOf = "real"
    /\ env = Unset
    /\ out_dir \in dirs

\* C2: a manifest whose mode is given and is not "simulated", run with
\* ALLOW_REAL_CAPTURE = "1", passes the gate and can only end in the uncaught
\* NotImplementedError: the engine is never invoked and no file exists that was not
\* there before (no IQ artifact, no sidecar, no run_metadata.json).
C2_RealCaptureHardStop ==
    (NonSimulated /\ env = "1") =>
        /\ pc \in {"Start", "Loaded", "Gated", "Failed"}
        /\ (pc = "Failed" => status = "NotImplementedError")
        /\ invoked = 0
        /\ epc = "idle"
        /\ fs = InitialFs

C2_Witness ==
    /\ pc = "Failed"
    /\ status = "NotImplementedError"
    /\ ModeGiven
    /\ ModeOf = "real"
    /\ env = "1"

\* C3: a run in mode "simulated" whose engine invocation succeeded ends Finalized:
\* the sidecar is in the run directory, run_metadata.json is written with the
\* manifest verbatim, the run directory path is printed and the exit is 0.
C3_Finalization ==
    (ModeGiven /\ ModeOf = "simulated" /\ Terminal /\ invoked = 1 /\ erc = 0) =>
        /\ pc = "Finalized"
        /\ status = "exit0"
        /\ Exists(fs, PathJoin(out_dir, <<BaseName(SidecarPath)>>))
        /\ Exists(fs, RunMetadataPath)
        /\ fs[Resolve(RunMetadataPath)].manifest = manifest

\* C8: every file created or modified lies under the run directory.
C8_ConfinedSideEffects ==
    \A p \in DOMAIN fs :
        \/ p \in DOMAIN InitialFs /\ fs[p] = InitialFs[p]
        \/ out_dir # <<>> /\ Under(out_dir, p)

\* C9: without ALLOW_REAL_CAPTURE = "1", a run that has passed the gate and
\* dispatched has started the generator, and NotImplementedError is never raised.
C9_GateDispatchAgree ==
    env # "1" =>
        /\ status # "NotImplementedError"
        /\ (pc \notin {"Start", "Loaded", "Rejected", "Gated"} => invoked = 1)

\* C10: the tone list the engine parsed is the manifest's list of (freq_hz, amp)
\* pairs, amp defaulting to 1.0, in order.
C10_ToneRoundTrip ==
    (pc = "Synthesizing" /\ epc \in {"noise", "burst", "normalize", "write", "meta", "report"}) =>
        tones = [i \in DOMAIN manifest.stimulus.tones |->
                    [freq |-> manifest.stimulus.tones[i].freq_hz,
                     amp |-> Get(manifest.stimulus.tones[i], "amp", One)]]

\* C7: two orchestrator runs over the same manifest write the same IQ artifact.
C7_ReproducibleRuns ==
    Len(artifacts) >= 2 => artifacts[1] = artifacts[2]

ValidSpec(a) == a.duration > 0 /\ a.samplerate > 0
BurstGiven(a) == Len(a.burst) >= 3 /\ a.burst[1] >= 0 /\ a.burst[2] >= 0
BurstStartIdx(a) == TruncDiv(a.burst[1] * a.samplerate, One * One)
BurstDurIdx(a) == TruncDiv(a.burst[2] * a.samplerate, One * One)
\* [start_idx, min(n, start_idx + dur_idx))
BurstWindow(a) ==
    {k \in 0..(SampleCount(a) - 1) :
        BurstStartIdx(a) <= k /\ k < Min(SampleCount(a), BurstStartIdx(a) + BurstDurIdx(a))}
\* exp(2j*pi*burst_rate*t_k), amplitude 1.0
BurstWaveAt(a, k) ==
    LET c == Cis4(Turns4(a.burst[3], k, a.samplerate)) IN Cplx(One * c.re, One * c.im)
\* the superposition of the tones and the noise
ToneNoise(a) ==
    LET n == SampleCount(a)
        ts == SumTones([i \in 1..n |-> Zero], parse_tones(a.tones), a.samplerate, Arange(n))
    IN IF a.noise > 0 THEN [i \in 1..n |-> Add(ts[i], mk_noise(a.seed, a.noise, n)[i])] ELSE ts
\* the accumulator as the amplitude limiter finds it
PreNormalization(a) == BurstStage(ToneNoise(a), a)

C5_InvalidSpecification ==
    (pc = "none" /\ (eargs.duration <= 0 \/ eargs.samplerate <= 0)) =>
        /\ (epc = "exit" => erc # 0)
        /\ ~Exists(fs, eargs.out)
        /\ ~Exists(fs, WithSuffix(eargs.out, ".meta.json"))

\* the complex samples of a written artifact
Deinterleave(d) ==
    [i \in 1..(Len(d) \div 2) |->
        [re |-> d[2 * i - 1].v, im |-> d[2 * i].v, den2 |-> d[2 * i - 1].den2]]
SamplesOf(c) == IF c.kind = "npy" THEN c.data ELSE Deinterleave(c.data)
Written == pc = "none" /\ epc \in {"meta", "report", "exit"} /\ Exists(fs, eargs.out)

\* C6: for a valid specification the written samples all have magnitude <= 1.0; when
\* the pre-normalization peak exceeds 1.0 every sample is the pre-normalization
\* sample divided by that one peak, and the largest magnitude is exactly 1.0; when
\* the peak is <= 1.0 the samples are the pre-normalization samples unscaled.
C6_Normalization ==
    (Written /\ ValidSpec(eargs)) =>
        LET out == SamplesOf(fs[Resolve(eargs.out)])
            pre == PreNormalization(eargs)
            peak2 == MaxMag2(pre)
        IN /\ Len(out) = Len(pre)
           /\ \A i \in DOMAIN out : Mag2(out[i]) <= out[i].den2
           /\ peak2 > One * One =>
                /\ \E i \in DOMAIN out : Mag2(out[i]) = out[i].den2
                /\ \A i \in DOMAIN out : out[i] = [pre[i] EXCEPT !.den2 = peak2]
           /\ peak2 <= One * One => out = pre

C6_Witness ==
    /\ Written
    /\ ValidSpec(eargs)
    /\ MaxMag2(PreNormalization(eargs)) > One * One
    /\ \E i \in DOMAIN iq : Mag2(iq[i]) < iq[i].den2 /\ Mag2(iq[i]) > One * One
    /\ eargs.noise > 0
    /\ BurstGiven(eargs)

====
